---- MODULE Spec2Model ----
(***************************************************************************)
(* evaluateMmap of the 1brc repository: the memory-mapped, key-interned,   *)
(* chunk-sharded scanner.  The mapped file is a sequence of bytes (ASCII   *)
(* codes); offsets are Go's 0-based offsets, so data[i] of the source is   *)
(* At(data, i) here and data[a:b] is Slice(data, a, b).                    *)
(***************************************************************************)
EXTENDS Integers, Sequences, FiniteSets, TLC

\* ------------------------------------------------------------ constants

\* const numberOfMaxStations = 10_000, scaled to the model's key universe.
numberOfMaxStations == 3

\* const workerCount = 10, scaled.
workerCount == 2

\* The discovery loop's bound, `for pos <= 5_000_000`, scaled to the files
\* the model enumerates.
DiscoveryPrefix == 18

\* The slack each worker adds to its naive end offset: workerSize*(workerID+1) + 20.
ChunkSlack == 20

\* Bound of the model: the largest number of records of an input file.
MaxRecords == 4

\* ------------------------------------------------------------ bytes

Semicolon == 59
Newline == 10
Dot == 46
Minus == 45
Zero == 48

\* Go's data[i] for a 0-based i.
At(d, i) == d[i + 1]

\* Go's data[a:b].
Slice(d, a, b) == SubSeq(d, a + 1, b)

\* Offset of the first byte c in d[from:to], relative to from; -1 when absent
\* (bytes.IndexByte, and the `for j, c := range data[pos:]` searches).
IndexByteIn(d, from, to, c) ==
    IF \E j \in from .. (to - 1) : At(d, j) = c
    THEN (CHOOSE j \in from .. (to - 1) :
              /\ At(d, j) = c
              /\ \A k \in from .. (j - 1) : At(d, k) # c) - from
    ELSE -1

\* bytes.LastIndexByte on d[from:to], relative to from; -1 when absent.
LastIndexByteIn(d, from, to, c) ==
    IF \E j \in from .. (to - 1) : At(d, j) = c
    THEN (CHOOSE j \in from .. (to - 1) :
              /\ At(d, j) = c
              /\ \A k \in (j + 1) .. (to - 1) : At(d, k) # c) - from
    ELSE -1

\* maphash.Bytes under the process seed: a 64-bit hash, taken as injective on
\* the keys of one run, so the hash of a key is represented by the key.
Hash(key) == key

\* ------------------------------------------------------------ inputs

\* Station names of the input files: two one-byte names and one name long
\* enough that its record is longer than ChunkSlack.
KeyA == <<65>>
KeyB == <<66>>
KeyLong == <<76, 111, 110, 103, 83, 116, 97, 116, 105, 111, 110, 78, 97, 109, 101, 115>>

\* Value literals: "1.0" and "-12.3".
Lit10 == <<49, 46, 48>>
LitNeg123 == <<45, 49, 50, 46, 51>>

\* The tenths value a literal denotes (the reference reading of the input format).
TenthsOf(lit) ==
    LET neg == lit[1] = Minus
        body == IF neg THEN Tail(lit) ELSE lit
        mag == IF Len(body) = 3
               THEN (body[1] - Zero) * 10 + (body[3] - Zero)
               ELSE (body[1] - Zero) * 100 + (body[2] - Zero) * 10 + (body[4] - Zero)
    IN IF neg THEN 0 - mag ELSE mag

\* One record `key;value\n`.
RecordBytes(r) == r.key \o <<Semicolon>> \o r.value \o <<Newline>>

RECURSIVE FileBytes(_)
FileBytes(rs) == IF rs = <<>> THEN <<>> ELSE RecordBytes(Head(rs)) \o FileBytes(Tail(rs))

\* The records the input files are written from: a station with readings of
\* both signs, one with a positive reading only, one with a negative reading
\* only (and a record of 23 bytes).
RecordChoices ==
    { [key |-> KeyA, value |-> Lit10],
      [key |-> KeyA, value |-> LitNeg123],
      [key |-> KeyB, value |-> Lit10],
      [key |-> KeyLong, value |-> LitNeg123] }

InputFiles == UNION {[1 .. n -> RecordChoices] : n \in 1 .. MaxRecords}

\* ------------------------------------------------------------ chunk planner

\* workerSize := len(data) / workerCount
WorkerSize(d, W) == Len(d) \div W

\* The chunk taken as cut, without moving to the record terminators.
ChunkOf_unaligned(d, W, w) ==
    LET ws == WorkerSize(d, W)
        naive == ws * (w + 1) + ChunkSlack
        last == IF naive > Len(d) THEN Len(d) - 1 ELSE naive
        base == ws * w
    IN IF base > last \/ last < 0
       THEN [ok |-> FALSE, lo |-> 0, hi |-> 0]
       ELSE [ok |-> TRUE, lo |-> base, hi |-> last]

\* The byte range [lo, hi) of the mapped file that worker w scans:
\*   last := workerSize*(workerID+1) + 20; if last > len(data) { last = len(data) - 1 }
\*   data = data[workerSize*workerID : last]
\*   data = data[bytes.IndexByte(data, '\n')+1 : bytes.LastIndexByte(data, '\n')+1]
\* ok is FALSE when a slice expression is out of range (a panic).
ChunkOf(d, W, w) ==
    LET ws == WorkerSize(d, W)
        naive == ws * (w + 1) + ChunkSlack
        last == IF naive > Len(d) THEN Len(d) - 1 ELSE naive
        base == ws * w
    IN IF base > last \/ last < 0
       THEN [ok |-> FALSE, lo |-> 0, hi |-> 0]
       ELSE [ok |-> TRUE,
             lo |-> base + IndexByteIn(d, base, last, Newline) + 1,
             hi |-> base + LastIndexByteIn(d, base, last, Newline) + 1]

\* ------------------------------------------------------------ worker scan

\* type cityTemperatureInfo struct { count, min, max, sum int64 }, zero-valued.
ZeroInfo == [count |-> 0, min |-> 0, max |-> 0, sum |-> 0]

StationIds == 0 .. (numberOfMaxStations - 1)

\* [numberOfMaxStations]cityTemperatureInfo{}
ZeroTable == [i \in StationIds |-> ZeroInfo]

\* stationSymbolMap[hash]: Go's map read gives the zero value for a missing key.
Lookup(symmap, key) == IF Hash(key) \in DOMAIN symmap THEN symmap[Hash(key)] ELSE 0

\* Every worker indexing the same table instead of its own.
TableOf_shared(w) == 0

\* The table a worker updates: workerResults[workerID].
TableOf(w) == w

\* The slot update with the comparison of the minimum copied to the maximum.
Observe_swapped(slot, temperature) ==
    [count |-> slot.count + 1,
     sum   |-> slot.sum + temperature,
     min   |-> IF temperature < slot.min THEN temperature ELSE slot.min,
     max   |-> IF temperature < slot.max THEN temperature ELSE slot.max]

\* The update of one slot by one temperature.
Observe(slot, temperature) ==
    [count |-> slot.count + 1,
     sum   |-> slot.sum + temperature,
     min   |-> IF temperature < slot.min THEN temperature ELSE slot.min,
     max   |-> IF temperature > slot.max THEN temperature ELSE slot.max]

\* customStringToIntParser with the negation left out.
customStringToIntParser_unsigned(input) ==
    LET body == IF input[1] = Minus THEN Tail(input) ELSE input
    IN IF Len(body) = 3
       THEN body[1] * 10 + body[3] - Zero * 11
       ELSE IF Len(body) = 4
       THEN body[1] * 100 + body[2] * 10 + body[4] - Zero * 111
       ELSE 0

\* func customStringToIntParser(input []byte) (output int64): the switch on
\* the length after the sign; any other length leaves output 0.
customStringToIntParser(input) ==
    LET isNegativeNumber == input[1] = Minus
        body == IF isNegativeNumber THEN Tail(input) ELSE input
        output == IF Len(body) = 3
                  THEN body[1] * 10 + body[3] - Zero * 11
                  ELSE IF Len(body) = 4
                  THEN body[1] * 100 + body[2] * 10 + body[4] - Zero * 111
                  ELSE 0
    IN IF isNegativeNumber THEN 0 - output ELSE output

\* One iteration of a worker's scan loop over its chunk d[lo:hi] at the
\* chunk-relative cursor p.  kind is "break" (no ';' left), "panic" (an index
\* or slice out of range) or "record" (a key and a temperature were read).
ScanRecord(d, lo, hi, p, symmap) ==
    LET n == hi - lo
        none == [kind |-> "break", pos |-> p, station |-> 0, temperature |-> 0]
        bad == [kind |-> "panic", pos |-> p, station |-> 0, temperature |-> 0]
    IN IF p > n THEN bad
       ELSE LET o == IndexByteIn(d, lo + p, hi, Semicolon)
            IN IF o = -1 THEN none
               ELSE LET station == Lookup(symmap, Slice(d, lo + p, lo + p + o))
                        p1 == p + o + 1
                    IN IF p1 >= n THEN bad
                       ELSE LET negative == At(d, lo + p1) = Minus
                                p2 == IF negative THEN p1 + 1 ELSE p1
                            IN IF p2 + 1 >= n THEN bad
                               ELSE IF At(d, lo + p2 + 1) = Dot
                               THEN IF p2 + 2 >= n THEN bad
                                    ELSE LET t == At(d, lo + p2 + 2) + At(d, lo + p2) * 10
                                                  - Zero * 11
                                         IN [kind |-> "record", pos |-> p2 + 4,
                                             station |-> station,
                                             temperature |-> IF negative THEN 0 - t ELSE t]
                               ELSE IF p2 + 3 >= n THEN bad
                                    ELSE LET t == At(d, lo + p2 + 3) + At(d, lo + p2 + 1) * 10
                                                  + At(d, lo + p2) * 100 - Zero * 111
                                         IN [kind |-> "record", pos |-> p2 + 5,
                                             station |-> station,
                                             temperature |-> IF negative THEN 0 - t ELSE t]

\* ------------------------------------------------------------ merger

\* The fold that assigns min and max from the worker slot instead of comparing.
MergeSlot_lastWins(final, slot) ==
    IF slot.count = 0 THEN final
    ELSE [sum   |-> final.sum + slot.sum,
          count |-> final.count + slot.count,
          min   |-> slot.min,
          max   |-> slot.max]

\* The fold of one worker slot into the final slot.
MergeSlot(final, slot) ==
    IF slot.count = 0 THEN final
    ELSE [sum   |-> final.sum + slot.sum,
          count |-> final.count + slot.count,
          min   |-> IF slot.min < final.min THEN slot.min ELSE final.min,
          max   |-> IF slot.max > final.max THEN slot.max ELSE final.max]

\* for _, result := range workerResults { for stationID, stationResult := range result {...} }
\* over the tables 0 .. n-1.
RECURSIVE MergeTables(_, _)
MergeTables(tables, n) ==
    IF n = 0 THEN ZeroTable
    ELSE LET before == MergeTables(tables, n - 1)
         IN [i \in StationIds |-> MergeSlot(before[i], tables[n - 1][i])]

\* ------------------------------------------------------------ registry sort

\* bytes.Compare(a, b) < 0
BytesLess(a, b) ==
    \E i \in 1 .. (Len(b)) :
        /\ \A k \in 1 .. (i - 1) : k <= Len(a) /\ a[k] = b[k]
        /\ (i > Len(a) \/ a[i] < b[i])

RECURSIVE SortedSeq(_)
SortedSeq(names) ==
    IF names = {} THEN <<>>
    ELSE LET least == CHOOSE a \in names : \A b \in names \ {a} : BytesLess(a, b)
         IN <<least>> \o SortedSeq(names \ {least})

\* The registry left in discovery order.
SortNames_discoveryOrder(names) == names

\* slices.SortFunc(stationNames, bytes.Compare): the names are pairwise
\* distinct, so the sorted order is unique.
SortNames(names) == SortedSeq({names[i] : i \in DOMAIN names})

\* ------------------------------------------------------------ formatter

Abs(x) == IF x < 0 THEN 0 - x ELSE x

RECURSIVE DecDigits(_)
DecDigits(n) == IF n < 10 THEN <<Zero + n>> ELSE DecDigits(n \div 10) \o <<Zero + (n % 10)>>

\* The text of a decimal with one fractional digit: an optional '-', the
\* integer digits, '.', the fractional digit.
FixedText(negative, tenths) ==
    (IF negative THEN <<Minus>> ELSE <<>>) \o DecDigits(tenths \div 10)
        \o <<Dot, Zero + (tenths % 10)>>

\* The rendering of a min or max without its sign.
FormatTenths_unsigned(v) == FixedText(FALSE, Abs(v))

\* strconv.FormatFloat(float64(v)/10, 'f', 1, 64) for an integer v: the
\* quotient is the double nearest v/10, whose one-digit rendering is v/10.
FormatTenths(v) == FixedText(v < 0, Abs(v))

RECURSIVE PowMod2(_, _)
PowMod2(e, q) == IF e = 0 THEN 1 % q ELSE (2 * PowMod2(e - 1, q)) % q

\* The least j >= 0 with p * 2^j >= q (p >= 1).
RECURSIVE ShiftUp(_, _)
ShiftUp(p, q) == IF p >= q THEN 0 ELSE 1 + ShiftUp(2 * p, q)

\* The greatest k >= 0 with q * 2^k <= p (p >= q).
RECURSIVE ShiftDown(_, _)
ShiftDown(p, q) == IF 2 * q > p THEN 0 ELSE 1 + ShiftDown(p, 2 * q)

\* float64 division p/q of two small positive integers, IEEE-754 round to
\* nearest: TRUE when the double is greater than the real quotient.  With e
\* the exponent that puts p*2^e/q in [2^52, 2^53), the quotient is rounded up
\* exactly when the remainder of p*2^e by q exceeds q/2.
QuotientRoundsUp(p, q) ==
    LET lg == IF p >= q THEN ShiftDown(p, q) ELSE 0 - ShiftUp(p, q)
        e == 52 - lg
        r == ((p % q) * PowMod2(e, q)) % q
    IN 2 * r > q

\* strconv.FormatFloat(float64(sum)/(float64(count)*10), 'f', 1, 64).
\* FormatFloat renders the double's exact value to one digit, an exact half
\* going to the even digit; 0/0 is NaN.
FormatAvg(sum, count) ==
    IF count = 0
    THEN (IF sum = 0 THEN <<78, 97, 78>>
          ELSE IF sum < 0 THEN <<45, 73, 110, 102>> ELSE <<43, 73, 110, 102>>)
    ELSE LET p == Abs(sum)
             t == p \div count
             rem == p % count
             tie == IF (2 * t + 1) % 5 = 0
                    THEN (IF t % 2 = 0 THEN t ELSE t + 1)
                    ELSE (IF QuotientRoundsUp(p, 10 * count) THEN t + 1 ELSE t)
             tenths == IF 2 * rem < count THEN t
                       ELSE IF 2 * rem > count THEN t + 1
                       ELSE tie
         IN FixedText(sum < 0, tenths)

\* station=min/avg/max for each name of the registry in its order, joined by ", ".
RECURSIVE FormatEntries(_, _, _, _)
FormatEntries(names, symmap, final, i) ==
    IF i > Len(names) THEN <<>>
    ELSE LET station == names[i]
             result == final[symmap[Hash(station)]]
         IN (IF i # 1 THEN <<44, 32>> ELSE <<>>)
            \o station \o <<61>>
            \o FormatTenths(result.min) \o <<47>>
            \o FormatAvg(result.sum, result.count) \o <<47>>
            \o FormatTenths(result.max)
            \o FormatEntries(names, symmap, final, i + 1)

\* buf: '{' entries '}' '\n'
FormatBuffer(names, symmap, final) ==
    <<123>> \o FormatEntries(names, symmap, final, 1) \o <<125, 10>>

\* stationResults[...] indexed at or past the array's length is a panic.
FormatPanics(names, symmap) ==
    \E i \in DOMAIN names : symmap[Hash(names[i])] \notin StationIds

\* ------------------------------------------------------------ state

Workers == 0 .. (workerCount - 1)

\* The goroutines evaluateMmap starts: the workers by workerID, and the sort.
SortTask == 0 - 1
Tasks == Workers \cup {SortTask}

\* The printResult argument of main's call:
\* evaluateMmap(flag.Args()[0], workerCount, 16*1024*1024, false)
printResult == FALSE

\* done := make(chan struct{}, workerCount)
DoneCapacity == workerCount

\* The receive loop written with `<` in place of `<=`: one receive short.
ReceiveCount_short == workerCount

\* for i := 0; i <= workerCount; i++ { <-done }: the receives of the main goroutine.
ReceiveCount == workerCount + 1

VARIABLES
    recs,              \* the records the input file was written from (history)
    data,              \* the mapped file
    pc,                \* position of the main goroutine; "panic": the process died
    pos, off, id,      \* locals of the discovery loop
    stationNames,      \* KeyRegistry
    stationSymbolMap,  \* SymbolTable: key (its hash) -> id
    loopVar,           \* workerID of the spawn loop
    spc,               \* position of the sort goroutine
    wpc,               \* position of each worker goroutine
    chunk,             \* each worker's data after the two re-slices: [lo, hi)
    wpos,              \* each worker's cursor, relative to its chunk
    workerResults,     \* WorkerResults: one table per worker
    observed,          \* per table and id, the temperatures added so far (history)
    writers,           \* per table, the workers that have written it (history)
    done,              \* number of signals buffered in the channel
    sent,              \* the goroutines whose signal was sent (history)
    received,          \* i of the receive loop
    stationResults,    \* FinalTable
    buf,               \* the output buffer
    stdout             \* the buffers written to os.Stdout, in order

mainVars == <<pc, pos, off, id, stationSymbolMap, loopVar, received, stationResults, buf,
              stdout>>
workerVars == <<wpc, chunk, wpos, workerResults, observed, writers>>
mmapVars == <<recs, data, mainVars, stationNames, spc, workerVars, done, sent>>

\* The state of the channel pipeline of the `evaluate` variants (src/main.go).
VARIABLES
    numCPU,            \* runtime.NumCPU() of the machine
    batches,           \* number of batches the reader has to send
    byChan,            \* lineChan / byChan: the batches buffered
    byChanClosed,      \* close(byChan) has run
    resultChan,        \* the partial maps buffered, each named by its batch
    resultChanClosed,  \* close(resultChan) has run
    wg,                \* the WaitGroup counter
    readerPc,          \* position of the reader goroutine
    sentBatches,       \* batches the reader has sent
    workerPc,          \* position of each pipeline worker
    workerBatch,       \* the batch a pipeline worker holds
    processedBy,       \* per batch, the workers that processed it (history)
    mainPc,            \* position of evaluate's own goroutine
    folded,            \* the batches whose partial map the merge loop folded (history)
    pipelinePanic      \* a goroutine panicked: send on closed channel

pipeVars == <<numCPU, batches, byChan, byChanClosed, resultChan, resultChanClosed, wg,
              readerPc, sentBatches, workerPc, workerBatch, processedBy, mainPc, folded,
              pipelinePanic>>

\* The variables of the programs other than evaluateMmap.
\* State of readFile (src/main.go, src/unnamed/part_001): the file content and
\* the read offset, len(buf), leftOver, the chunks sent on byChan so far.
VARIABLES
    rfFile,
    rfOffset,
    rfBufLen,
    rfLeftOver,
    rfSent,
    rfPc

readVars == <<rfFile, rfOffset, rfBufLen, rfLeftOver, rfSent, rfPc>>

\* State of a RobinHoodMap (src/unnamed/part_000): its four fields, and for
\* reference the map it stands for (rhmModel: the value last put under each
\* key, Nil when the key was never put or was deleted since) and the last
\* call with what it returned and what Size() and Keys() were before it.
VARIABLES
    rhmEntries,
    rhmSize,
    rhmCount,
    rhmMask,
    rhmModel,
    rhmLast

rhmFields == <<rhmEntries, rhmSize, rhmCount, rhmMask>>
rhmVars == <<rhmFields, rhmModel, rhmLast>>

otherVars == <<pipeVars, readVars, rhmVars>>

vars == <<mmapVars, otherVars>>

Running == pc # "panic"

\* The state after the declarations at the head of evaluateMmap, the file
\* being one of a set of input files.
InitMmap(files) ==
    /\ recs \in files
    /\ data = FileBytes(recs)
    /\ pc = "discover"
    /\ pos = 0
    /\ off = 0
    /\ id = 0
    /\ stationNames = <<>>
    /\ stationSymbolMap = <<>>
    /\ loopVar = 0
    /\ spc = "idle"
    /\ wpc = [w \in Workers |-> "idle"]
    /\ chunk = [w \in Workers |-> [lo |-> 0, hi |-> 0]]
    /\ wpos = [w \in Workers |-> 0]
    /\ workerResults = [w \in Workers |-> ZeroTable]
    /\ observed = [w \in Workers |-> [i \in StationIds |-> <<>>]]
    /\ writers = [w \in Workers |-> {}]
    /\ done = 0
    /\ sent = {}
    /\ received = 0
    /\ stationResults = ZeroTable
    /\ buf = <<>>
    /\ stdout = <<>>

\* Largest runtime.NumCPU() and largest number of batches of the pipeline runs.
MaxCPU == 3
MaxBatches == 3

\* The pipeline workers there can be: runtime.NumCPU() - 1 at most.
PipeWorkerIds == 1 .. (MaxCPU - 1)

\* The pipeline not run.
PipelineIdle ==
    /\ numCPU = 1
    /\ batches = 0
    /\ byChan = <<>>
    /\ byChanClosed = FALSE
    /\ resultChan = <<>>
    /\ resultChanClosed = FALSE
    /\ wg = 0
    /\ readerPc = "idle"
    /\ sentBatches = 0
    /\ workerPc = [w \in PipeWorkerIds |-> "idle"]
    /\ workerBatch = [w \in PipeWorkerIds |-> 0]
    /\ processedBy = <<>>
    /\ mainPc = "idle"
    /\ folded = <<>>
    /\ pipelinePanic = FALSE

\* The programs other than evaluateMmap not run.
\* readFile is not running.
ReadFileIdle ==
    /\ rfFile = <<>>
    /\ rfOffset = 0
    /\ rfBufLen = 0
    /\ rfLeftOver = <<>>
    /\ rfSent = <<>>
    /\ rfPc = "idle"

\* No RobinHoodMap has been made.
RobinHoodIdle ==
    /\ rhmEntries = <<>>
    /\ rhmSize = 0
    /\ rhmCount = 0
    /\ rhmMask = 0
    /\ rhmModel = <<>>
    /\ rhmLast = <<>>

OthersIdle == PipelineIdle /\ ReadFileIdle /\ RobinHoodIdle

\* A run of evaluateMmap on one of a set of input files.
InitWith(files) == InitMmap(files) /\ OthersIdle

Init == InitWith(InputFiles)

\* ------------------------------------------------------------ key interner

\* The store of a new key with ids counted from 1.
Intern_fromOne(symmap, key, nextId) == (Hash(key) :> (nextId + 1)) @@ symmap

\* stationSymbolMap[stationID] = id
Intern(symmap, key, nextId) == (Hash(key) :> nextId) @@ symmap

\* func getAllStationNames(by []byte): the pass over the bytes, taken from
\* offset i to the next ';': the '\n' bytes before it move startIndex past the
\* last of them, the ';' interns by[startIndex:j] when it is new.
RECURSIVE getAllStationNamesFrom(_, _, _, _, _, _)
getAllStationNamesFrom(by, i, startIndex, nextId, names, symmap) ==
    LET o == IndexByteIn(by, i, Len(by), Semicolon)
    IN IF o = -1 THEN [stationNames |-> names, stationSymbolMap |-> symmap]
       ELSE LET j == i + o
                n == LastIndexByteIn(by, i, j, Newline)
                start == IF n = -1 THEN startIndex ELSE i + n + 1
                key == Slice(by, start, j)
            IN IF Hash(key) \in DOMAIN symmap
               THEN getAllStationNamesFrom(by, j + 1, start, nextId, names, symmap)
               ELSE getAllStationNamesFrom(by, j + 1, start, nextId + 1,
                                           Append(names, key), Intern(symmap, key, nextId))

getAllStationNames(by) == getAllStationNamesFrom(by, 0, 0, 0, <<>>, <<>>)

\* off after the search `for j, c := range data[pos:]`: the offset of the
\* first ';', or the value left by the previous iteration when there is none.
DiscoverOff == LET j == IndexByteIn(data, pos, Len(data), Semicolon)
               IN IF j = -1 THEN off ELSE j

\* One iteration of the discovery loop.  A slice or index out of range is a
\* run-time panic, which ends the process.
DiscoverStep ==
    /\ UNCHANGED otherVars
    /\ pc = "discover"
    /\ pos <= DiscoveryPrefix
    /\ LET o == DiscoverOff
           p == pos + o + 2
       IN IF pos > Len(data) \/ pos + o > Len(data) \/ p + 2 >= Len(data)
          THEN /\ pc' = "panic"
               /\ UNCHANGED <<pos, off, id, stationNames, stationSymbolMap>>
          ELSE LET key == Slice(data, pos, pos + o)
                   seen == Hash(key) \in DOMAIN stationSymbolMap
               IN /\ off' = o
                  /\ stationNames' = IF seen THEN stationNames ELSE Append(stationNames, key)
                  /\ stationSymbolMap' = IF seen THEN stationSymbolMap
                                         ELSE Intern(stationSymbolMap, key, id)
                  /\ id' = IF seen THEN id ELSE id + 1
                  /\ pos' = IF At(data, p + 2) = Dot THEN p + 5
                            ELSE IF At(data, p + 1) = Dot THEN p + 4
                            ELSE IF At(data, p) = Dot THEN p + 3
                            ELSE p
                  /\ pc' = pc
    /\ UNCHANGED <<recs, data, loopVar, received, stationResults, buf, stdout, spc, workerVars,
                   done, sent>>

\* The loop condition fails: the main goroutine goes on to start the tasks.
DiscoverExit ==
    /\ UNCHANGED otherVars
    /\ pc = "discover"
    /\ pos > DiscoveryPrefix
    /\ pc' = "spawnSort"
    /\ UNCHANGED <<recs, data, pos, off, id, stationNames, stationSymbolMap, loopVar,
                   received, stationResults, buf, stdout, spc, workerVars, done, sent>>

\* ------------------------------------------------------------ main goroutine

\* go func() { slices.SortFunc(...); done <- struct{}{} }()
SpawnSort ==
    /\ UNCHANGED otherVars
    /\ pc = "spawnSort"
    /\ spc' = "sort"
    /\ loopVar' = 0
    /\ pc' = "spawnWorkers"
    /\ UNCHANGED <<recs, data, pos, off, id, stationNames, stationSymbolMap, received,
                   stationResults, buf, stdout, workerVars, done, sent>>

\* for workerID := 0; workerID < workerCount; workerID++ {
\*     go func(workerID int, data []byte) {...}(workerID, data)
\* }
SpawnWorker ==
    /\ UNCHANGED otherVars
    /\ pc = "spawnWorkers"
    /\ loopVar < workerCount
    /\ wpc' = [wpc EXCEPT ![loopVar] = "plan"]
    /\ loopVar' = loopVar + 1
    /\ pc' = IF loopVar + 1 < workerCount THEN "spawnWorkers" ELSE "wait"
    /\ received' = 0
    /\ UNCHANGED <<recs, data, pos, off, id, stationNames, stationSymbolMap,
                   stationResults, buf, stdout, spc, chunk, wpos, workerResults, observed,
                   writers, done, sent>>

\* <-done
Receive ==
    /\ UNCHANGED otherVars
    /\ pc = "wait"
    /\ done > 0
    /\ done' = done - 1
    /\ received' = received + 1
    /\ pc' = IF received + 1 < ReceiveCount THEN "wait" ELSE "merge"
    /\ UNCHANGED <<recs, data, pos, off, id, stationNames, stationSymbolMap, loopVar,
                   stationResults, buf, stdout, spc, workerVars, sent>>

\* merge workerResults
Merge ==
    /\ UNCHANGED otherVars
    /\ pc = "merge"
    /\ stationResults' = MergeTables(workerResults, workerCount)
    /\ pc' = "format"
    /\ UNCHANGED <<recs, data, pos, off, id, stationNames, stationSymbolMap, loopVar,
                   received, buf, stdout, spc, workerVars, done, sent>>

\* The formatting loop, the closing '}' '\n', and the write to os.Stdout
\* when printResult is set.
Format ==
    /\ UNCHANGED otherVars
    /\ pc = "format"
    /\ IF FormatPanics(stationNames, stationSymbolMap)
       THEN pc' = "panic" /\ UNCHANGED <<buf, stdout>>
       ELSE /\ buf' = FormatBuffer(stationNames, stationSymbolMap, stationResults)
            /\ stdout' = IF printResult THEN Append(stdout, buf') ELSE stdout
            /\ pc' = "done"
    /\ UNCHANGED <<recs, data, pos, off, id, stationNames, stationSymbolMap, loopVar,
                   received, stationResults, spc, workerVars, done, sent>>

\* ------------------------------------------------------------ sort goroutine

SortStep ==
    /\ UNCHANGED otherVars
    /\ Running
    /\ spc = "sort"
    /\ stationNames' = SortNames(stationNames)
    /\ spc' = "send"
    /\ UNCHANGED <<recs, data, mainVars, workerVars, done, sent>>

\* done <- struct{}{}: blocks while the buffer is full.
SortSend ==
    /\ UNCHANGED otherVars
    /\ Running
    /\ spc = "send"
    /\ done < DoneCapacity
    /\ done' = done + 1
    /\ sent' = sent \cup {SortTask}
    /\ spc' = "done"
    /\ UNCHANGED <<recs, data, mainVars, stationNames, workerVars>>

\* ------------------------------------------------------------ worker goroutines

\* The two re-slices of data at the head of the worker.
WorkerPlan(w) ==
    /\ UNCHANGED otherVars
    /\ Running
    /\ wpc[w] = "plan"
    /\ LET c == ChunkOf(data, workerCount, w)
       IN IF c.ok
          THEN /\ chunk' = [chunk EXCEPT ![w] = [lo |-> c.lo, hi |-> c.hi]]
               /\ wpc' = [wpc EXCEPT ![w] = "scan"]
               /\ pc' = pc
          ELSE /\ pc' = "panic"
               /\ UNCHANGED <<chunk, wpc>>
    /\ wpos' = [wpos EXCEPT ![w] = 0]
    /\ UNCHANGED <<recs, data, pos, off, id, stationSymbolMap, loopVar, received,
                   stationResults, buf, stdout, stationNames, spc, workerResults, observed,
                   writers, done, sent>>

\* One iteration of the scan loop: the key, the temperature, the slot update.
WorkerScan(w) ==
    /\ UNCHANGED otherVars
    /\ Running
    /\ wpc[w] = "scan"
    /\ LET r == ScanRecord(data, chunk[w].lo, chunk[w].hi, wpos[w], stationSymbolMap)
           t == TableOf(w)
       IN CASE r.kind = "break" ->
                 /\ wpc' = [wpc EXCEPT ![w] = "send"]
                 /\ UNCHANGED <<pc, wpos, workerResults, observed, writers>>
            [] r.kind = "record" /\ r.station \in StationIds ->
                 /\ workerResults' = [workerResults EXCEPT ![t][r.station] =
                                          Observe(@, r.temperature)]
                 /\ observed' = [observed EXCEPT ![t][r.station] =
                                     Append(@, r.temperature)]
                 /\ writers' = [writers EXCEPT ![t] = @ \cup {w}]
                 /\ wpos' = [wpos EXCEPT ![w] = r.pos]
                 /\ UNCHANGED <<pc, wpc>>
            [] OTHER ->
                 /\ pc' = "panic"
                 /\ UNCHANGED <<wpc, wpos, workerResults, observed, writers>>
    /\ UNCHANGED <<recs, data, pos, off, id, stationSymbolMap, loopVar, received,
                   stationResults, buf, stdout, stationNames, spc, chunk, done, sent>>

\* done <- struct{}{}
WorkerSend(w) ==
    /\ UNCHANGED otherVars
    /\ Running
    /\ wpc[w] = "send"
    /\ done < DoneCapacity
    /\ done' = done + 1
    /\ sent' = sent \cup {w}
    /\ wpc' = [wpc EXCEPT ![w] = "done"]
    /\ UNCHANGED <<recs, data, mainVars, stationNames, spc, chunk, wpos,
                   workerResults, observed, writers>>

Worker(w) == WorkerPlan(w) \/ WorkerScan(w) \/ WorkerSend(w)

\* ------------------------------------------------------------ memory accesses

MainTask == 0 - 2
AllTasks == Tasks \cup {MainTask}

\* The shared locations: one per worker table, the symbol table, the key
\* registry and the final table.
TableLoc(t) == <<"workerResults", t>>
SymbolLoc == <<"stationSymbolMap", 0>>
NamesLoc == <<"stationNames", 0>>
FinalLoc == <<"stationResults", 0>>

\* The locations the next step of a goroutine writes: the discovery loop
\* appends to the registry and stores in the map, the merge stores in
\* stationResults, the sort reorders stationNames in place, a worker's loop
\* iteration updates workerResults[workerID].
Writes(t) ==
    IF ~Running THEN {}
    ELSE IF t = MainTask
    THEN (IF pc = "discover" THEN {NamesLoc, SymbolLoc}
          ELSE IF pc = "merge" THEN {FinalLoc}
          ELSE {})
    ELSE IF t = SortTask
    THEN (IF spc = "sort" THEN {NamesLoc} ELSE {})
    ELSE (IF wpc[t] = "scan" THEN {TableLoc(TableOf(t))} ELSE {})

\* The locations the next step of a goroutine reads.
Reads(t) ==
    IF ~Running THEN {}
    ELSE IF t = MainTask
    THEN (IF pc = "discover" THEN {SymbolLoc}
          ELSE IF pc = "merge" THEN {TableLoc(w) : w \in Workers} \cup {FinalLoc}
          ELSE IF pc = "format" THEN {NamesLoc, SymbolLoc, FinalLoc}
          ELSE {})
    ELSE IF t = SortTask
    THEN (IF spc = "sort" THEN {NamesLoc} ELSE {})
    ELSE (IF wpc[t] = "scan" THEN {SymbolLoc, TableLoc(TableOf(t))} ELSE {})

\* ------------------------------------------------------------ specification

Next ==
    \/ DiscoverStep
    \/ DiscoverExit
    \/ SpawnSort
    \/ SpawnWorker
    \/ Receive
    \/ Merge
    \/ Format
    \/ SortStep
    \/ SortSend
    \/ \E w \in Workers : Worker(w)

Spec == Init /\ [][Next]_vars

\* The Go scheduler runs every goroutine that can take a step: the main
\* goroutine, the sort goroutine and each worker are each weakly fair.
Fairness ==
    /\ WF_vars(DiscoverStep \/ DiscoverExit \/ SpawnSort \/ SpawnWorker
                   \/ Receive \/ Merge \/ Format)
    /\ WF_vars(SortStep \/ SortSend)
    /\ \A w \in Workers : WF_vars(Worker(w))

FairSpec == Spec /\ Fairness

\* Runs on files of one station whose readings are near zero: "0.3", "-0.1"
\* and "0.0", so that means fall between two tenths and between -0.1 and 0.
Lit03 == <<48, 46, 51>>
LitNeg01 == <<45, 48, 46, 49>>
Lit00 == <<48, 46, 48>>

NearZeroChoices == {[key |-> KeyA, value |-> v] : v \in {Lit03, LitNeg01, Lit00}}

NearZeroFiles == UNION {[1 .. n -> NearZeroChoices] : n \in MaxRecords .. (MaxRecords + 1)}

InitNumbers == InitWith(NearZeroFiles)

SpecNumbers == InitNumbers /\ [][Next]_vars

\* Runs on files whose second record carries one of the well-formed numeric
\* tokens: an optional '-', one or two integer digits, '.', one digit.
Digits == 0 .. 9

IntegerDigits == {<<Zero + a>> : a \in Digits} \cup {<<Zero + a, Zero + b>> : a, b \in Digits}

WellFormedTokens ==
    {sign \o ints \o <<Dot, Zero + f>> :
        sign \in {<<>>, <<Minus>>}, ints \in IntegerDigits, f \in Digits}

TokenFiles ==
    {<<[key |-> KeyA, value |-> Lit10], [key |-> KeyA, value |-> tok],
       [key |-> KeyA, value |-> Lit10], [key |-> KeyA, value |-> Lit10]>> :
        tok \in WellFormedTokens}

InitParse == InitWith(TokenFiles)

SpecParse == InitParse /\ [][Next]_vars

\* Runs on files with malformed lines: a token with three integer digits
\* ("100.0"), a token without a fraction ("1"), and a line without the
\* delimiter ("A1.0"), which reaches the scan as part of the key of the line
\* after it.
Lit1000 == <<49, 48, 48, 46, 48>>
Lit1 == <<49>>
KeyNoDelimiter == <<65, 49, 46, 48, Newline, 66>>

MalformedChoices ==
    { [key |-> KeyA, value |-> Lit10],
      [key |-> KeyB, value |-> LitNeg123],
      [key |-> KeyA, value |-> Lit1000],
      [key |-> KeyA, value |-> Lit1],
      [key |-> KeyNoDelimiter, value |-> Lit10] }

MalformedFiles == UNION {[1 .. n -> MalformedChoices] : n \in 1 .. MaxRecords}

InitMalformed == InitWith(MalformedFiles)

SpecMalformed == InitMalformed /\ [][Next]_vars

\* Runs on files with up to four stations, one more than numberOfMaxStations,
\* in records short enough for four of them to start inside the discovery
\* prefix.
KeyC == <<67>>
KeyD == <<68>>

ManyKeysChoices == {[key |-> k, value |-> Lit10] : k \in {KeyA, KeyB, KeyC, KeyD}}

ManyKeysFiles ==
    UNION {[1 .. n -> ManyKeysChoices] : n \in MaxRecords .. (MaxRecords + 1)}

InitOverflow == InitWith(ManyKeysFiles)

SpecOverflow == InitOverflow /\ [][Next]_vars

\* ------------------------------------------------------------ plan, scan, merge

\* The scan loop of one worker run to its end from cursor p: the table it
\* leaves, ok FALSE when an iteration panics.
RECURSIVE ScanChunk(_, _, _, _, _, _)
ScanChunk(d, lo, hi, p, table, symmap) ==
    LET r == ScanRecord(d, lo, hi, p, symmap)
    IN IF r.kind = "break" THEN [ok |-> TRUE, table |-> table]
       ELSE IF r.kind = "record" /\ r.station \in StationIds
       THEN ScanChunk(d, lo, hi, r.pos,
                      [table EXCEPT ![r.station] = Observe(@, r.temperature)], symmap)
       ELSE [ok |-> FALSE, table |-> table]

\* The table of worker w of W after its scan.
WorkerTableFor(d, W, w, symmap) ==
    LET c == ChunkOf(d, W, w)
    IN IF c.ok THEN ScanChunk(d, c.lo, c.hi, 0, ZeroTable, symmap)
       ELSE [ok |-> FALSE, table |-> ZeroTable]

\* The final table of a run with W workers: every worker's scan of its chunk,
\* then the merge of the W tables.
FinalTableFor(d, W, symmap) ==
    LET t == [w \in 0 .. (W - 1) |-> WorkerTableFor(d, W, w, symmap)]
    IN [ok |-> \A w \in 0 .. (W - 1) : t[w].ok,
        table |-> MergeTables([w \in 0 .. (W - 1) |-> t[w].table], W)]

\* ------------------------------------------------------------ reference

\* Offset of the first byte of record i of the input file.
RECURSIVE RecordStart(_)
RecordStart(i) == IF i = 1 THEN 0
                  ELSE RecordStart(i - 1) + Len(RecordBytes(recs[i - 1]))

RecordEnd(i) == RecordStart(i) + Len(RecordBytes(recs[i]))

\* The precondition of the design: every key of the file occurs in a record
\* that starts inside the discovery prefix.
AllKeysInPrefix ==
    \A i \in DOMAIN recs :
        \E j \in DOMAIN recs : recs[j].key = recs[i].key /\ RecordStart(j) <= DiscoveryPrefix

\* The records of the file with a given key.
RecordsOf(key) == {i \in DOMAIN recs : recs[i].key = key}

RECURSIVE SumSeq(_)
SumSeq(q) == IF q = <<>> THEN 0 ELSE Head(q) + SumSeq(Tail(q))

MinOf(S) == CHOOSE x \in S : \A y \in S : x <= y
MaxOf(S) == CHOOSE x \in S : \A y \in S : x >= y

RECURSIVE SumOver(_, _)
SumOver(S, f) == IF S = {} THEN 0
                 ELSE LET x == CHOOSE y \in S : TRUE
                      IN f[x] + SumOver(S \ {x}, f)

Planned(w) == wpc[w] \in {"scan", "send", "done"}
Scanned(w) == wpc[w] \in {"send", "done"}
Merged == pc \in {"format", "done"}

\* Record i lies inside worker w's chunk.
InChunk(i, w) == chunk[w].lo <= RecordStart(i) /\ RecordEnd(i) <= chunk[w].hi

\* ------------------------------------------------------------ claims

\* C1: every record of a well-formed file lies in at least one worker's
\* chunk, so that after the merge the count of every id is at least the
\* number of records of the file with that key.
C1_EveryRecordScanned ==
    AllKeysInPrefix =>
        /\ (\A w \in Workers : Planned(w)) =>
               \A i \in DOMAIN recs : \E w \in Workers : InChunk(i, w)
        /\ Merged =>
               \A key \in DOMAIN stationSymbolMap :
                   stationResults[stationSymbolMap[key]].count >= Cardinality(RecordsOf(key))

\* C2: the chunks of two different workers share no byte, so that after the
\* merge the count of every id is at most the number of records of the file
\* with that key.
C2_NoRecordTwice ==
    AllKeysInPrefix =>
        /\ \A v, w \in Workers :
               (v # w /\ Planned(v) /\ Planned(w)) =>
                   (chunk[v].hi <= chunk[w].lo \/ chunk[w].hi <= chunk[v].lo
                    \/ chunk[v].lo = chunk[v].hi \/ chunk[w].lo = chunk[w].hi)
        /\ Merged =>
               \A key \in DOMAIN stationSymbolMap :
                   stationResults[stationSymbolMap[key]].count <= Cardinality(RecordsOf(key))

\* The reference statistics of a key: the values of its records in the file.
ValuesOf(key) == {TenthsOf(recs[i].value) : i \in RecordsOf(key)}
SumOf(key) == SumOver(RecordsOf(key), [i \in DOMAIN recs |-> TenthsOf(recs[i].value)])

\* The mean in tenths, rounded half away from zero; a mean that rounds to
\* zero is written 0.0.
MeanText(sum, count) ==
    LET p == Abs(sum)
        tenths == IF 2 * (p % count) >= count THEN (p \div count) + 1 ELSE p \div count
    IN FixedText(sum < 0 /\ tenths # 0, tenths)

RECURSIVE ExpectedEntries(_, _)
ExpectedEntries(names, i) ==
    IF i > Len(names) THEN <<>>
    ELSE (IF i # 1 THEN <<44, 32>> ELSE <<>>)
         \o names[i] \o <<61>>
         \o FormatTenths(MinOf(ValuesOf(names[i]))) \o <<47>>
         \o MeanText(SumOf(names[i]), Cardinality(RecordsOf(names[i]))) \o <<47>>
         \o FormatTenths(MaxOf(ValuesOf(names[i])))
         \o ExpectedEntries(names, i + 1)

\* {key=min/mean/max, ...} over the distinct keys of the file in ascending order.
ExpectedOutput ==
    <<123>> \o ExpectedEntries(SortedSeq({recs[i].key : i \in DOMAIN recs}), 1) \o <<125>>

\* C3: on a well-formed input, small ones included, the run completes and the
\* output lists each distinct key with the minimum, the mean and the maximum
\* of all of its values.
C3_EndToEnd ==
    AllKeysInPrefix =>
        /\ pc # "panic"
        /\ pc = "done" => buf = ExpectedOutput \o <<Newline>>

\* The worker counts of the partition-invariance property.
WorkerCounts == {1, 2, 4, 8}

\* C4: the final table of plan-scan-merge is the same for every worker count
\* in {1, 2, 4, 8}.
C4_PartitionInvariance ==
    (pc = "spawnSort" /\ AllKeysInPrefix) =>
        \A W1, W2 \in WorkerCounts :
            FinalTableFor(data, W1, stationSymbolMap) = FinalTableFor(data, W2, stationSymbolMap)

\* C5: whatever the interleaving of the workers and the sort, a finished run
\* has the final table and the output buffer that the input and the worker
\* count determine.
C5_SchedulingDeterminism ==
    pc = "done" =>
        LET final == FinalTableFor(data, workerCount, stationSymbolMap)
        IN /\ final.ok
           /\ stationResults = final.table
           /\ buf = FormatBuffer(SortNames(stationNames), stationSymbolMap, final.table)

\* A finished run in which both workers added records to their tables and the
\* sort changed the order of the registry.
C5_Witness ==
    /\ pc = "done"
    /\ \A w \in Workers : \E i \in StationIds : workerResults[w][i].count > 0
    /\ Len(stationNames) >= 2
    /\ stationSymbolMap[stationNames[1]] # 0

\* C6: the main goroutine is past the completion channel only after W+1
\* signals, one from every worker and one from the sort, all of which have
\* finished; every signal sent is either buffered or received.
C6_JoinBarrier ==
    /\ received + done = Cardinality(sent)
    /\ pc = "wait" => received < workerCount + 1
    /\ pc \in {"merge", "format", "done"} =>
           /\ \A w \in Workers : wpc[w] = "done"
           /\ spc = "done"
           /\ sent = Tasks
           /\ received = workerCount + 1
           /\ done = 0

\* The main goroutine has just passed the barrier.
C6_Witness ==
    /\ pc = "merge"
    /\ sent = Tasks
    /\ \E w \in Workers : writers[w] # {}

\* C7: a worker table is written by its own worker only, no worker reads the
\* table of another, the main goroutine reads the tables only after the
\* barrier, and no location is written by one goroutine while another reads
\* or writes it.
C7_ExclusiveOwnership ==
    /\ \A w \in Workers : writers[w] \subseteq {w}
    /\ \A w, v \in Workers : TableLoc(v) \in Reads(w) \cup Writes(w) => v = w
    /\ (\E w \in Workers : TableLoc(w) \in Reads(MainTask)) =>
           /\ received = workerCount + 1
           /\ \A w \in Workers : wpc[w] = "done"
    /\ \A t, u \in AllTasks :
           t # u => Writes(t) \cap (Reads(u) \cup Writes(u)) = {}

\* Both workers are in their scan loops, each has written its table, and the
\* sort is about to reorder the registry.
C7_Witness ==
    /\ \A w \in Workers : wpc[w] = "scan" /\ writers[w] = {w}
    /\ spc = "sort"

\* The id a worker gives to record i of the file.
IdOfRecord(i) == Lookup(stationSymbolMap, recs[i].key)

\* The records of worker w's chunk that have a given id.
ChunkRecords(w, sid) == {i \in DOMAIN recs : InChunk(i, w) /\ IdOfRecord(i) = sid}

RecordTenths == [i \in DOMAIN recs |-> TenthsOf(recs[i].value)]

\* C8: after a worker's scan every slot it touched holds the count, the sum,
\* the minimum and the maximum of the values of that id in its chunk.
C8_WorkerUpdateRule ==
    \A w \in Workers :
        Scanned(w) =>
            \A sid \in StationIds :
                LET slot == workerResults[w][sid]
                    rs == ChunkRecords(w, sid)
                IN slot.count > 0 =>
                       /\ slot.count = Cardinality(rs)
                       /\ slot.sum = SumOver(rs, RecordTenths)
                       /\ slot.min = MinOf({RecordTenths[i] : i \in rs})
                       /\ slot.max = MaxOf({RecordTenths[i] : i \in rs})

\* C9: after the merge, count and sum of every id are the sums over the
\* worker slots, min and max are the extrema over the worker slots with a
\* count above 0, and an id no worker counted is left zero.
C9_MergerFold ==
    Merged =>
        \A sid \in StationIds :
            LET final == stationResults[sid]
                used == {w \in Workers : workerResults[w][sid].count > 0}
            IN /\ final.count = SumOver(Workers, [w \in Workers |-> workerResults[w][sid].count])
               /\ final.sum = SumOver(Workers, [w \in Workers |-> workerResults[w][sid].sum])
               /\ used # {} =>
                      /\ final.min = MinOf({workerResults[w][sid].min : w \in used})
                      /\ final.max = MaxOf({workerResults[w][sid].max : w \in used})
               /\ used = {} => final = ZeroInfo

\* After the merge, an id that both workers counted, with different minima.
C9_Witness ==
    /\ Merged
    /\ \E sid \in StationIds :
           /\ \A w \in Workers : workerResults[w][sid].count > 0
           /\ workerResults[0][sid].min # workerResults[1][sid].min
           /\ stationResults[sid].count >= 3

\* C10: every record with a count above 0, in a worker table at any moment of
\* the scan and in the final table after the merge, has min <= v <= max for
\* every value v added to it and sum equal to the sum of those values.
C10_AggregateInvariant ==
    /\ \A t \in Workers : \A sid \in StationIds :
           LET slot == workerResults[t][sid]
               obs == observed[t][sid]
           IN slot.count > 0 =>
                  /\ \A k \in DOMAIN obs : slot.min <= obs[k] /\ obs[k] <= slot.max
                  /\ slot.sum = SumSeq(obs)
    /\ Merged =>
           \A sid \in StationIds :
               LET final == stationResults[sid]
               IN final.count > 0 =>
                      /\ \A t \in Workers : \A k \in DOMAIN observed[t][sid] :
                             /\ final.min <= observed[t][sid][k]
                             /\ observed[t][sid][k] <= final.max
                      /\ final.sum = SumOver(Workers,
                                             [t \in Workers |-> SumSeq(observed[t][sid])])

\* After the merge, a final record that took values of both signs.
C10_Witness ==
    /\ Merged
    /\ \E sid \in StationIds :
           /\ stationResults[sid].count >= 2
           /\ stationResults[sid].min < 0
           /\ stationResults[sid].max > 0

\* ------------------------------------------------------------ unknown keys

\* The discovery scan interned the key.
KnownKey(key) == Hash(key) \in DOMAIN stationSymbolMap

\* Worker w's cursor is past record i of its chunk.
Consumed(w, i) ==
    /\ Planned(w)
    /\ InChunk(i, w)
    /\ chunk[w].lo + wpos[w] >= RecordEnd(i)

\* The records of worker w's chunk whose key was interned with id sid.
KnownChunkRecords(w, sid) ==
    {i \in DOMAIN recs :
        InChunk(i, w) /\ KnownKey(recs[i].key) /\ stationSymbolMap[Hash(recs[i].key)] = sid}

\* C11: a worker never gets past a record whose key the discovery scan did
\* not intern unless the run has stopped with an error, and no slot of its
\* table counts more records than its chunk holds for the key of that slot.
C11_UnknownKeyRejected ==
    \A w \in Workers :
        /\ \A i \in DOMAIN recs :
               (Consumed(w, i) /\ ~KnownKey(recs[i].key)) => pc = "panic"
        /\ Planned(w) =>
               \A sid \in StationIds :
                   workerResults[w][sid].count <= Cardinality(KnownChunkRecords(w, sid))

\* ------------------------------------------------------------ output order

\* The entry the output holds for an interned key: the key, '=', and the
\* min, avg and max of the final record of the key's own id.
EntryOf(key) ==
    LET result == stationResults[stationSymbolMap[Hash(key)]]
    IN key \o <<61>> \o FormatTenths(result.min) \o <<47>>
           \o FormatAvg(result.sum, result.count) \o <<47>>
           \o FormatTenths(result.max)

\* The entries of a sequence of keys, joined by ", ".
RECURSIVE JoinEntries(_)
JoinEntries(keys) ==
    IF keys = <<>> THEN <<>>
    ELSE IF Len(keys) = 1 THEN EntryOf(keys[1])
    ELSE EntryOf(keys[1]) \o <<44, 32>> \o JoinEntries(Tail(keys))

\* The keys the discovery scan interned.
InternedKeys == DOMAIN stationSymbolMap

\* C12: the buffer of a finished run holds one entry per interned key, the
\* keys ascending in byte order, each entry with the numbers of the final
\* record of its key's id.
C12_OutputOrder ==
    pc = "done" =>
        /\ Len(stationNames) = Cardinality(InternedKeys)
        /\ {stationNames[i] : i \in DOMAIN stationNames} = InternedKeys
        /\ \A i \in 1 .. (Len(stationNames) - 1) :
               BytesLess(stationNames[i], stationNames[i + 1])
        /\ buf = <<123>> \o JoinEntries(SortedSeq(InternedKeys)) \o <<125, Newline>>

\* A finished run whose sort moved the key of id 0 away from the front, the
\* first two ids having different final records.
C12_Witness ==
    /\ pc = "done"
    /\ Len(stationNames) >= 2
    /\ stationSymbolMap[Hash(stationNames[1])] # 0
    /\ stationResults[0] # stationResults[1]
    /\ stationResults[1].count > 0

\* ------------------------------------------------------------ rendering of the mean

\* |sum| / count rounded to the nearest integer, a half going away from zero.
RoundHalfAway(sum, count) ==
    LET p == Abs(sum)
    IN IF 2 * (p % count) >= count THEN (p \div count) + 1 ELSE p \div count

\* The entry of a key with the mean rounded half away from zero (the sign
\* is the sign of the sum).
RoundedEntryOf(key) ==
    LET result == stationResults[stationSymbolMap[Hash(key)]]
    IN key \o <<61>> \o FormatTenths(result.min) \o <<47>>
           \o (IF result.count > 0
               THEN FixedText(result.sum < 0, RoundHalfAway(result.sum, result.count))
               ELSE FormatAvg(result.sum, result.count))
           \o <<47>> \o FormatTenths(result.max)

RECURSIVE JoinRoundedEntries(_)
JoinRoundedEntries(keys) ==
    IF keys = <<>> THEN <<>>
    ELSE IF Len(keys) = 1 THEN RoundedEntryOf(keys[1])
    ELSE RoundedEntryOf(keys[1]) \o <<44, 32>> \o JoinRoundedEntries(Tail(keys))

\* C13: in the buffer of a finished run the mean of every final record with a
\* count above 0 is sum/count in tenths rounded to the nearest integer, a
\* half rounded away from zero.
C13_AverageRounding ==
    pc = "done" =>
        buf = <<123>> \o JoinRoundedEntries(SortedSeq(InternedKeys)) \o <<125, Newline>>

\* The text "-0.0".
NegativeZeroText == <<Minus, Zero, Dot, Zero>>

\* The text occurs in a sequence of bytes.
Occurs(text, bytes) ==
    \E i \in 1 .. (Len(bytes) - Len(text) + 1) :
        SubSeq(bytes, i, i + Len(text) - 1) = text

\* C14: the buffer of a finished run never holds "-0.0".
C14_NoNegativeZero ==
    pc = "done" => ~Occurs(NegativeZeroText, buf)

\* ------------------------------------------------------------ fixed-point parse

\* The values, in file order, of the records of id sid that worker w's
\* cursor has passed, among the first n records of the file.
RECURSIVE ConsumedValues(_, _, _)
ConsumedValues(w, sid, n) ==
    IF n = 0 THEN <<>>
    ELSE ConsumedValues(w, sid, n - 1)
         \o (IF Consumed(w, n) /\ IdOfRecord(n) = sid
             THEN <<TenthsOf(recs[n].value)>> ELSE <<>>)

\* C15: on well-formed tokens customStringToIntParser returns the signed
\* tenths the token denotes, within -999 .. 999; the temperatures a worker
\* has added are those signed tenths of the records its cursor has passed,
\* and its cursor stands on the first byte of a record or at the end of its
\* chunk.
C15_FixedPointParse ==
    /\ \A i \in DOMAIN recs :
           /\ customStringToIntParser(recs[i].value) = TenthsOf(recs[i].value)
           /\ TenthsOf(recs[i].value) \in (0 - 999) .. 999
    /\ \A w \in Workers :
           Planned(w) =>
               /\ \/ chunk[w].lo + wpos[w] = chunk[w].hi
                  \/ \E i \in DOMAIN recs :
                         InChunk(i, w) /\ RecordStart(i) = chunk[w].lo + wpos[w]
               /\ \A sid \in StationIds :
                      observed[w][sid] = ConsumedValues(w, sid, Len(recs))

\* A worker has read the token "-99.9" and stands at the start of the next record.
C15_Witness ==
    \E w \in Workers :
        /\ wpc[w] = "scan"
        /\ observed[w][0] = <<0 - 999>>
        /\ recs[2].value = <<Minus, 57, 57, Dot, 57>>
        /\ chunk[w].lo + wpos[w] = RecordStart(3)

\* ------------------------------------------------------------ interning

\* The first record of the file with a given key.
FirstOccurrence(key) == MinOf(RecordsOf(key))

\* The keys of the records the discovery loop has gone over.
SeenKeys == {recs[i].key : i \in {j \in DOMAIN recs : RecordStart(j) < pos}}

\* A symbol table over a set of keys with the ids 0 .. n-1 in order of first
\* occurrence.
InternedInOrder(symmap, keys) ==
    /\ DOMAIN symmap = {Hash(k) : k \in keys}
    /\ {symmap[h] : h \in DOMAIN symmap} = 0 .. (Cardinality(keys) - 1)
    /\ \A k1, k2 \in keys :
           symmap[Hash(k1)] < symmap[Hash(k2)] <=> FirstOccurrence(k1) < FirstOccurrence(k2)

\* Registry entry i is the bytes of the first occurrence of the key of id i.
RegistryByFirstOccurrence(names, symmap, keys) ==
    /\ Len(names) = Cardinality(keys)
    /\ \A k \in keys :
           LET first == RecordStart(FirstOccurrence(k))
           IN names[symmap[Hash(k)] + 1] = Slice(data, first, first + Len(k))

\* C16: during the discovery loop and after it the symbol table holds the
\* keys gone over so far with the ids 0 .. n-1 in order of first occurrence,
\* the next id is n, and until the sort runs registry entry i is the first
\* occurrence of the key of id i; getAllStationNames gives the same over the
\* keys of the whole file.
C16_InterningInvariant ==
    /\ InternedInOrder(stationSymbolMap, SeenKeys)
    /\ id = Cardinality(SeenKeys)
    /\ spc \in {"idle", "sort"} =>
           RegistryByFirstOccurrence(stationNames, stationSymbolMap, SeenKeys)
    /\ (pc = "discover" /\ pos = 0) =>
           LET all == getAllStationNames(data)
               keys == {recs[i].key : i \in DOMAIN recs}
           IN /\ InternedInOrder(all.stationSymbolMap, keys)
              /\ RegistryByFirstOccurrence(all.stationNames, all.stationSymbolMap, keys)

\* The discovery loop has gone over a key a second time after interning two
\* keys, the sort not yet started.
C16_Witness ==
    /\ pc = "spawnSort"
    /\ id = 2
    /\ Cardinality({j \in DOMAIN recs : RecordStart(j) < pos}) = 3
    /\ stationNames[1] = KeyB

\* ------------------------------------------------------------ read-only sharing

\* The main goroutine has left the discovery loop and started the sort.
Constructed == spc # "idle"

\* C17: once the tasks are started no goroutine has a write to the symbol
\* table or to the registry ahead of it, the symbol table is the one the
\* discovery loop built, and registry entry i remains the first occurrence
\* of the key of id i.
C17_ReadOnlyAfterConstruction ==
    Constructed =>
        /\ \A t \in AllTasks : Writes(t) \cap {SymbolLoc, NamesLoc} = {}
        /\ InternedInOrder(stationSymbolMap, SeenKeys)
        /\ RegistryByFirstOccurrence(stationNames, stationSymbolMap, SeenKeys)

\* ------------------------------------------------------------ malformed records

\* Record i is not `key;value\n` with a key free of ';' and '\n' and a value
\* of the shape [-]d.d or [-]dd.d.
Malformed(i) ==
    \/ recs[i].value \notin WellFormedTokens
    \/ \E k \in DOMAIN recs[i].key : recs[i].key[k] \in {Semicolon, Newline}

\* Worker w has met record i: the record starts in its chunk, and its cursor
\* has moved past that start or its scan has ended.
Met(w, i) ==
    /\ Planned(w)
    /\ chunk[w].lo <= RecordStart(i)
    /\ RecordStart(i) < chunk[w].hi
    /\ (chunk[w].lo + wpos[w] > RecordStart(i) \/ Scanned(w))

\* C18: once a worker has met a malformed record the run is aborted; the
\* worker neither scans on nor finishes its scan.
C18_MalformedIsFatal ==
    \A w \in Workers : \A i \in DOMAIN recs :
        (Malformed(i) /\ Met(w, i)) => pc = "panic"

\* ------------------------------------------------------------ capacity

\* C19: when the discovery loop has gone over more distinct keys than
\* numberOfMaxStations the run is stopped with an error, and the symbol
\* table never holds an id at or above numberOfMaxStations.
C19_CapacityChecked ==
    /\ Cardinality(SeenKeys) > numberOfMaxStations => pc = "panic"
    /\ \A h \in DOMAIN stationSymbolMap : stationSymbolMap[h] < numberOfMaxStations
    /\ id <= numberOfMaxStations

\* ------------------------------------------------------------ termination

\* C20: under fair scheduling a run on a well-formed file comes to its end:
\* every worker and the sort have sent their one signal, the main goroutine
\* has received all W+1 of them, none is left in the channel, and the merge
\* and the formatting are done.
C20_RunToCompletion ==
    <>(/\ pc = "done"
       /\ sent = Tasks
       /\ received = workerCount + 1
       /\ done = 0)

\* Once the discovery loop has been left, a fair run comes to that end.
CompletesAfterDiscovery ==
    (pc = "spawnSort") ~> (pc = "done" /\ sent = Tasks /\ received = workerCount + 1 /\ done = 0)

\* ------------------------------------------------------------ output sink

\* C21: a run that has completed has written its output buffer to the
\* output sink, once.
C21_SingleWrite ==
    pc = "done" => stdout = <<buf>>

\* ------------------------------------------------------------ final chunk

\* The worker with the highest workerID.
LastWorker == workerCount - 1

\* C22: the chunk of the last worker ends at len(data), and the last record
\* of the file lies in it.
C22_FinalChunk ==
    Planned(LastWorker) =>
        /\ chunk[LastWorker].hi = Len(data)
        /\ InChunk(Len(recs), LastWorker)

\* ------------------------------------------------------------ record alignment

\* Offset o of the file is the first byte of a record: offset 0 or the byte
\* after a terminator.
AtRecordStart(o) == o = 0 \/ At(data, o - 1) = Newline

\* C23: a non-empty chunk starts at the first byte of a record and ends
\* right after a terminator, and the cursor of the worker scanning it is at
\* the first byte of a record of the chunk or at the chunk's end.
C23_RecordAlignment ==
    \A w \in Workers :
        (Planned(w) /\ chunk[w].lo < chunk[w].hi) =>
            /\ AtRecordStart(chunk[w].lo)
            /\ At(data, chunk[w].hi - 1) = Newline
            /\ chunk[w].lo + wpos[w] <= chunk[w].hi
            /\ AtRecordStart(chunk[w].lo + wpos[w])
            /\ \A i \in DOMAIN recs :
                   (chunk[w].lo <= RecordStart(i) /\ RecordStart(i) < chunk[w].hi) =>
                       InChunk(i, w)

\* Both workers scan non-empty chunks, the second one starting inside the
\* file, and both cursors have moved past a record.
C23_Witness ==
    /\ \A w \in Workers :
           wpc[w] = "scan" /\ chunk[w].lo < chunk[w].hi /\ wpos[w] > 0
    /\ chunk[1].lo > chunk[0].lo

\* ------------------------------------------------------------ round trip

\* The canonical form of a well-formed literal: no '0' in front of a second
\* integer digit, and no '-' in front of a zero.
Canonical(lit) ==
    LET neg == lit[1] = Minus
        body == IF neg THEN Tail(lit) ELSE lit
        ints == SubSeq(body, 1, Len(body) - 2)
        short == IF Len(ints) = 2 /\ ints[1] = Zero THEN <<ints[2]>> ELSE ints
        zero == (\A k \in DOMAIN ints : ints[k] = Zero) /\ body[Len(body)] = Zero
    IN (IF neg /\ ~zero THEN <<Minus>> ELSE <<>>) \o short \o <<Dot, body[Len(body)]>>

\* The literal itself, "-0.0" being read as "0.0".
SameLiteral(lit) == IF lit = <<Minus, Zero, Dot, Zero>> THEN <<Zero, Dot, Zero>> ELSE lit

\* The literals, in file order, of the records of id sid that worker w's
\* cursor has passed, among the first n records of the file.
RECURSIVE ConsumedLiterals(_, _, _)
ConsumedLiterals(w, sid, n) ==
    IF n = 0 THEN <<>>
    ELSE ConsumedLiterals(w, sid, n - 1)
         \o (IF Consumed(w, n) /\ IdOfRecord(n) = sid THEN <<recs[n].value>> ELSE <<>>)

\* The temperatures worker w has added under id sid, rendered as the
\* formatter renders a min or max.
RenderedObserved(w, sid) ==
    [k \in DOMAIN observed[w][sid] |-> FormatTenths(observed[w][sid][k])]

\* The first n bytes and the last n bytes of a sequence.
Prefix(bytes, n) == SubSeq(bytes, 1, n)
Suffix(bytes, n) == SubSeq(bytes, Len(bytes) - n + 1, Len(bytes))

\* The text the round trip of a literal gives, by the reading `expected`:
\* every temperature a worker has parsed renders as expected(literal), and
\* in the buffer of a finished run the min of a station whose lowest reading
\* is the literal of the second record, or its max when that is the highest
\* reading, is expected(literal) as well.
RoundTripGives(expected(_)) ==
    /\ \A w \in Workers : \A sid \in StationIds :
           Planned(w) =>
               LET lits == ConsumedLiterals(w, sid, Len(recs))
               IN RenderedObserved(w, sid) = [k \in DOMAIN lits |-> expected(lits[k])]
    /\ (pc = "done" /\ Len(recs) >= 2) =>
           LET lit == recs[2].value
               text == expected(lit)
               head == <<123>> \o recs[2].key \o <<61>> \o text \o <<47>>
               tail == <<47>> \o text \o <<125, Newline>>
           IN /\ (stationResults[0].min = TenthsOf(lit) /\ Len(stationNames) = 1) =>
                     Prefix(buf, Len(head)) = head
              /\ (stationResults[0].max = TenthsOf(lit) /\ Len(stationNames) = 1) =>
                     Suffix(buf, Len(tail)) = tail

\* C24: parsing a well-formed literal and rendering the tenths as a min or
\* max gives the literal in canonical form: the same literal when it has no
\* redundant leading zero, "5.3" for "05.3", "0.0" for "-0.0".
C24_RoundTripCanonical == RoundTripGives(Canonical)

\* C24 as stated: the round trip gives back the same literal, "-0.0" giving "0.0".
C24_RoundTripLiteral == RoundTripGives(SameLiteral)

\* A finished run whose second record read "-99.9", that value being the
\* station's min.
C24_Witness ==
    /\ pc = "done"
    /\ recs[2].value = <<Minus, 57, 57, Dot, 57>>
    /\ stationResults[0].min = 0 - 999
    /\ \E w \in Workers : 0 - 999 \in {observed[w][0][k] : k \in DOMAIN observed[w][0]}

\* ------------------------------------------------------------ discovery bounds

\* The discovery loop is about to run an iteration.
DiscoverIterates == pc = "discover" /\ pos <= DiscoveryPrefix

\* C25: an iteration of the discovery loop starts only with the cursor
\* inside the buffer, finds the delimiter of the record at the cursor (it
\* does not fall back on the offset of an earlier record), and reads and
\* slices below len(data); the run never stops inside the loop.
C25_DiscoveryInBounds ==
    /\ DiscoverIterates =>
           /\ pos < Len(data)
           /\ IndexByteIn(data, pos, Len(data), Semicolon) # -1
           /\ pos + DiscoverOff <= Len(data)
           /\ pos + DiscoverOff + 4 < Len(data)
    /\ (pc = "panic" => spc # "idle")

\* ------------------------------------------------------------ empty aggregates

\* The text "NaN".
NaNText == <<78, 97, 78>>

\* C26: when the formatter runs every key of the registry has a final record
\* with a count of at least 1, and the buffer of a finished run holds no
\* "NaN".
C26_NoEmptyAggregate ==
    /\ Merged =>
           \A i \in DOMAIN stationNames :
               LET sid == stationSymbolMap[Hash(stationNames[i])]
               IN sid \in StationIds => stationResults[sid].count >= 1
    /\ pc = "done" => ~Occurs(NaNText, buf)

\* ------------------------------------------------------------ channel pipeline
\* evaluate of src/main.go (both variants) and of src/unnamed/part_001: a
\* reader goroutine sends batches on a channel, runtime.NumCPU() - 1 workers
\* turn each batch into a partial map sent on resultChan, the caller folds
\* the partial maps.  A batch is named by its number, a partial map by the
\* batch it was made from.

\* chanSize of main's call evaluate(flag.Args()[0], 10, 16*1024*1024, false), scaled.
chanSize == 2

\* workers := runtime.NumCPU() - 1
PipeWorkers == 1 .. (numCPU - 1)

\* evaluateMmap is not run in the runs of the other programs.
MmapIdle == InitMmap({<<[key |-> KeyA, value |-> Lit10]>>})

\* The state when evaluate has made the channels, done wg.Add(workers) and
\* started the workers and the reader, on a machine with some number of CPUs
\* and a file of some number of batches.
InitPipeline ==
    /\ MmapIdle
    /\ ReadFileIdle
    /\ RobinHoodIdle
    /\ numCPU \in 1 .. MaxCPU
    /\ batches \in 0 .. MaxBatches
    /\ byChan = <<>>
    /\ byChanClosed = FALSE
    /\ resultChan = <<>>
    /\ resultChanClosed = FALSE
    /\ wg = numCPU - 1
    /\ readerPc = "read"
    /\ sentBatches = 0
    /\ workerPc = [w \in PipeWorkerIds |-> IF w \in PipeWorkers THEN "range" ELSE "idle"]
    /\ workerBatch = [w \in PipeWorkerIds |-> 0]
    /\ processedBy = [b \in 1 .. batches |-> {}]
    /\ mainPc = "range"
    /\ folded = <<>>
    /\ pipelinePanic = FALSE

PipelineFrame == UNCHANGED <<mmapVars, readVars, rhmVars>>

\* lineChan <- lines / byChan <- toSend in readFileLines / readFile: blocks
\* while the buffer is full.
ReaderSend ==
    /\ ~pipelinePanic
    /\ readerPc = "read"
    /\ sentBatches < batches
    /\ Len(byChan) < chanSize
    /\ byChan' = Append(byChan, sentBatches + 1)
    /\ sentBatches' = sentBatches + 1
    /\ UNCHANGED <<numCPU, batches, byChanClosed, resultChan, resultChanClosed, wg,
                   readerPc, workerPc, workerBatch, processedBy, mainPc, folded,
                   pipelinePanic>>
    /\ PipelineFrame

\* readFile has returned: close(byChan)
ReaderClose ==
    /\ ~pipelinePanic
    /\ readerPc = "read"
    /\ sentBatches = batches
    /\ byChanClosed' = TRUE
    /\ readerPc' = "wait"
    /\ UNCHANGED <<numCPU, batches, byChan, resultChan, resultChanClosed, wg,
                   sentBatches, workerPc, workerBatch, processedBy, mainPc, folded,
                   pipelinePanic>>
    /\ PipelineFrame

\* wg.Wait()
ReaderWait ==
    /\ ~pipelinePanic
    /\ readerPc = "wait"
    /\ wg = 0
    /\ readerPc' = "close"
    /\ UNCHANGED <<numCPU, batches, byChan, byChanClosed, resultChan, resultChanClosed,
                   wg, sentBatches, workerPc, workerBatch, processedBy, mainPc, folded,
                   pipelinePanic>>
    /\ PipelineFrame

\* close(resultChan)
ReaderCloseResult ==
    /\ ~pipelinePanic
    /\ readerPc = "close"
    /\ resultChanClosed' = TRUE
    /\ readerPc' = "done"
    /\ UNCHANGED <<numCPU, batches, byChan, byChanClosed, resultChan, wg, sentBatches,
                   workerPc, workerBatch, processedBy, mainPc, folded, pipelinePanic>>
    /\ PipelineFrame

\* for by := range byChan: a batch is received ...
PipeWorkerReceive(w) ==
    /\ ~pipelinePanic
    /\ workerPc[w] = "range"
    /\ byChan # <<>>
    /\ workerBatch' = [workerBatch EXCEPT ![w] = Head(byChan)]
    /\ processedBy' = [processedBy EXCEPT ![Head(byChan)] = @ \cup {w}]
    /\ byChan' = Tail(byChan)
    /\ workerPc' = [workerPc EXCEPT ![w] = "send"]
    /\ UNCHANGED <<numCPU, batches, byChanClosed, resultChan, resultChanClosed, wg,
                   readerPc, sentBatches, mainPc, folded, pipelinePanic>>
    /\ PipelineFrame

\* ... or the channel is closed and drained: the loop ends, defer wg.Done().
PipeWorkerReturn(w) ==
    /\ ~pipelinePanic
    /\ workerPc[w] = "range"
    /\ byChan = <<>>
    /\ byChanClosed
    /\ wg' = wg - 1
    /\ workerPc' = [workerPc EXCEPT ![w] = "returned"]
    /\ UNCHANGED <<numCPU, batches, byChan, byChanClosed, resultChan, resultChanClosed,
                   readerPc, sentBatches, workerBatch, processedBy, mainPc, folded,
                   pipelinePanic>>
    /\ PipelineFrame

\* resultChan <- cityMap at the end of processLine / processBytes: a panic
\* when the channel is closed, blocked while the buffer is full.
PipeWorkerSend(w) ==
    /\ ~pipelinePanic
    /\ workerPc[w] = "send"
    /\ IF resultChanClosed
       THEN /\ pipelinePanic' = TRUE
            /\ UNCHANGED <<resultChan, workerPc>>
       ELSE /\ Len(resultChan) < chanSize
            /\ resultChan' = Append(resultChan, workerBatch[w])
            /\ workerPc' = [workerPc EXCEPT ![w] = "range"]
            /\ UNCHANGED pipelinePanic
    /\ UNCHANGED <<numCPU, batches, byChan, byChanClosed, resultChanClosed, wg,
                   readerPc, sentBatches, workerBatch, processedBy, mainPc, folded>>
    /\ PipelineFrame

\* for t := range resultChan { fold t into cityMap }
MainFold ==
    /\ ~pipelinePanic
    /\ mainPc = "range"
    /\ resultChan # <<>>
    /\ folded' = Append(folded, Head(resultChan))
    /\ resultChan' = Tail(resultChan)
    /\ UNCHANGED <<numCPU, batches, byChan, byChanClosed, resultChanClosed, wg,
                   readerPc, sentBatches, workerPc, workerBatch, processedBy, mainPc,
                   pipelinePanic>>
    /\ PipelineFrame

\* resultChan is closed and drained: the merge loop ends, evaluate formats
\* and returns.
MainReturn ==
    /\ ~pipelinePanic
    /\ mainPc = "range"
    /\ resultChan = <<>>
    /\ resultChanClosed
    /\ mainPc' = "returned"
    /\ UNCHANGED <<numCPU, batches, byChan, byChanClosed, resultChan, resultChanClosed,
                   wg, readerPc, sentBatches, workerPc, workerBatch, processedBy, folded,
                   pipelinePanic>>
    /\ PipelineFrame

PipeWorker(w) == PipeWorkerReceive(w) \/ PipeWorkerReturn(w) \/ PipeWorkerSend(w)

NextPipeline ==
    \/ ReaderSend
    \/ ReaderClose
    \/ ReaderWait
    \/ ReaderCloseResult
    \/ MainFold
    \/ MainReturn
    \/ \E w \in PipeWorkers : PipeWorker(w)

SpecPipeline == InitPipeline /\ [][NextPipeline]_vars

\* The number of times batch b was folded.
TimesFolded(b) == Cardinality({k \in DOMAIN folded : folded[k] = b})

\* C27: resultChan is closed only after byChan is closed and every worker
\* has returned, no goroutine panics on a closed channel, no batch is
\* processed by two workers or folded twice, and when evaluate returns every
\* batch of the file has been processed by one worker and folded once.
C27_PipelineProtocol ==
    /\ resultChanClosed =>
           /\ byChanClosed
           /\ \A w \in PipeWorkers : workerPc[w] = "returned"
    /\ ~pipelinePanic
    /\ \A b \in 1 .. batches :
           /\ Cardinality(processedBy[b]) <= 1
           /\ TimesFolded(b) <= 1
    /\ mainPc = "returned" =>
           \A b \in 1 .. batches :
               /\ Cardinality(processedBy[b]) = 1
               /\ TimesFolded(b) = 1

\* ------------------------------------------------------------ readFile
\* The byte-chunk reader of the channel variants.

\* chunkSize of main's call evaluate(flag.Args()[0], 10, 16*1024*1024, false), scaled.
chunkSize == 8

MaxReadRecords == 2

\* The files read: one to MaxReadRecords well-formed records no longer than
\* the buffer, each ended by its terminator.
ReadRecordChoices ==
    { [key |-> KeyA, value |-> Lit10],
      [key |-> KeyA, value |-> LitNeg123],
      [key |-> KeyB, value |-> Lit10] }

ReadFiles ==
    { FileBytes(r) : r \in UNION { [1 .. n -> ReadRecordChoices] : n \in 1 .. MaxReadRecords } }

Min(a, b) == IF a < b THEN a ELSE b

\* buf := make([]byte, chunkSize); leftOver := make([]byte, 0, chunkSize)
InitReadFile ==
    /\ MmapIdle
    /\ PipelineIdle
    /\ RobinHoodIdle
    /\ rfFile \in ReadFiles
    /\ rfOffset = 0
    /\ rfBufLen = chunkSize
    /\ rfLeftOver = <<>>
    /\ rfSent = <<>>
    /\ rfPc = "loop"

ReadFrame == UNCHANGED <<mmapVars, pipeVars, rhmVars>>

\* One iteration of the loop with a read of n bytes, 0 < n <= len(buf):
\*   buf = buf[:readTotal]
\*   lastNewLineIndex := bytes.LastIndex(buf, []byte{'\n'})
\*   toSend = append(leftOver, buf[:lastNewLineIndex+1]...)
\*   leftOver = copy of buf[lastNewLineIndex+1:]
\*   byChan <- toSend
\* LastIndexByteIn is the 0-based index, -1 when the byte is absent.
ReadChunkOf(n) ==
    LET bufNow == Slice(rfFile, rfOffset, rfOffset + n)
        lastNewLineIndex == LastIndexByteIn(bufNow, 0, n, Newline)
        toSend == rfLeftOver \o Slice(bufNow, 0, lastNewLineIndex + 1)
    IN  /\ rfBufLen' = n
        /\ rfOffset' = rfOffset + n
        /\ rfLeftOver' = Slice(bufNow, lastNewLineIndex + 1, n)
        /\ rfSent' = Append(rfSent, toSend)

ReadChunk ==
    /\ rfPc = "loop"
    /\ rfOffset < Len(rfFile)
    /\ \E n \in 1 .. Min(rfBufLen, Len(rfFile) - rfOffset) : ReadChunkOf(n)
    /\ UNCHANGED <<rfFile, rfPc>>
    /\ ReadFrame

\* file.Read returns io.EOF: break, return nil.
ReadEOF ==
    /\ rfPc = "loop"
    /\ rfOffset = Len(rfFile)
    /\ rfPc' = "returned"
    /\ UNCHANGED <<rfFile, rfOffset, rfBufLen, rfLeftOver, rfSent>>
    /\ ReadFrame

NextReadFile == ReadChunk \/ ReadEOF

SpecReadFile == InitReadFile /\ [][NextReadFile]_vars

RECURSIVE Concat(_)
Concat(chunks) == IF chunks = <<>> THEN <<>> ELSE Head(chunks) \o Concat(Tail(chunks))

\* The file content up to and including its last terminator.
UpToLastTerminator(f) == Slice(f, 0, LastIndexByteIn(f, 0, Len(f), Newline) + 1)

\* A whole number of records: nothing, or bytes ending with a terminator.
WholeRecords(c) == c = <<>> \/ c[Len(c)] = Newline

\* C28: whatever the read sizes, every chunk sent is a whole number of
\* records ending with a terminator, the chunks sent so far concatenate to
\* the part of the file read so far up to its last terminator, and
\* when readFile returns they concatenate to the file content up to its
\* last terminator.
C28_WholeRecordChunks ==
    /\ \A k \in DOMAIN rfSent : WholeRecords(rfSent[k])
    /\ Concat(rfSent) \o rfLeftOver = Slice(rfFile, 0, rfOffset)
    /\ rfPc = "returned" => Concat(rfSent) = UpToLastTerminator(rfFile)

\* ------------------------------------------------------------ RobinHoodMap
\* src/unnamed/part_000.  A map value m is the record of the struct's fields
\* [entries, size, count, mask]; entries is indexed from 0.

\* The smallest table NewRobinHoodMap makes (16 in the source), scaled.
MinTableSize == 2

\* Put is not called when its resize would make a table larger than this.
MaxTableSize == 4

\* Keys: "a", "i" and "e" have the same ideal slot (0) in a table of 2 and of
\* 4 slots, "b" has slot 1.
RhKeys == {"a", "i", "e", "b"}
RhValues == {1, 2}

\* The nil interface value.
Nil == 0

\* fastHash: 32-bit FNV-1a of the key, of which the low 8 bits are kept
\* (fnv("a") = 3826002220, fnv("i") = 3960223172, fnv("e") = 3758891744,
\* fnv("b") = 3876335077); a table of up to 256 slots uses no other bit.
fastHash(key) ==
    CASE key = "a" -> 44
      [] key = "i" -> 196
      [] key = "e" -> 224
      [] key = "b" -> 229

\* x & mask for mask = size - 1, size a power of two.
AndMask(x, m) == x % (m + 1)

\* int8 arithmetic: distance++ wraps from 127 to -128.
Int8(x) == ((x + 128) % 256) - 128

\* make([]Entry, size) followed by entries[i].Empty = true
EmptyEntry == [Key |-> "", Value |-> Nil, Hash |-> 0, Distance |-> 0, Empty |-> TRUE]

EmptyEntries(n) == [p \in 0 .. (n - 1) |-> EmptyEntry]

\* NewRobinHoodMap(initialSize) for initialSize <= MinTableSize.
NewRobinHoodMap ==
    [entries |-> EmptyEntries(MinTableSize),
     size |-> MinTableSize,
     count |-> 0,
     mask |-> MinTableSize - 1]

RECURSIVE Put(_, _, _), PutLoop(_, _, _, _, _, _, _), resize(_), Rehash(_, _, _)

\* The loop of Put slot slot `slot` (pos in the source) with the entry in hand and the running
\* distance.  After `entry, *existing = *existing, entry` the slot holds the
\* entry that was in hand, so `distance = existing.Distance` reads the
\* Distance field of that entry.
PutLoop(m, key, value, hash, entry, slot, distance) ==
    LET existing == m.entries[slot]
    IN  IF existing.Empty
        THEN [m EXCEPT !.entries[slot] = entry, !.count = @ + 1]
        ELSE IF existing.Hash = hash /\ existing.Key = key
        THEN [m EXCEPT !.entries[slot].Value = value]
        ELSE LET swap == distance > existing.Distance
                 m2 == IF swap THEN [m EXCEPT !.entries[slot] = entry] ELSE m
                 entry2 == IF swap THEN existing ELSE entry
                 distance2 == IF swap THEN entry.Distance ELSE distance
                 slot2 == AndMask(slot + 1, m.mask)
                 distance3 == Int8(distance2 + 1)
             IN  IF distance3 > 127
                 THEN Put(resize(m2), key, value)
                 ELSE PutLoop(m2, key, value, hash, entry2, slot2, distance3)

\* float64(count)/float64(size) > 0.75
OverLoaded(m) == 4 * m.count > 3 * m.size

Put(m, key, value) ==
    LET m1 == IF OverLoaded(m) THEN resize(m) ELSE m
        hash == fastHash(key)
        entry == [Key |-> key, Value |-> value, Hash |-> hash, Distance |-> 0,
                  Empty |-> FALSE]
    IN  PutLoop(m1, key, value, hash, entry, AndMask(hash, m1.mask), 0)

\* for _, entry := range oldEntries { if !entry.Empty { Put(...) } }, from index p.
Rehash(m, oldEntries, p) ==
    IF p \notin DOMAIN oldEntries
    THEN m
    ELSE Rehash(IF oldEntries[p].Empty
                THEN m
                ELSE Put(m, oldEntries[p].Key, oldEntries[p].Value),
                oldEntries, p + 1)

resize(m) ==
    Rehash([entries |-> EmptyEntries(2 * m.size),
            size |-> 2 * m.size,
            count |-> 0,
            mask |-> 2 * m.size - 1],
           m.entries, 0)

\* Get: <<value, ok>>.
RECURSIVE GetLoop(_, _, _, _, _)
GetLoop(m, key, hash, slot, distance) ==
    LET entry == m.entries[slot]
    IN  IF entry.Empty \/ distance > entry.Distance
        THEN <<Nil, FALSE>>
        ELSE IF entry.Hash = hash /\ entry.Key = key
        THEN <<entry.Value, TRUE>>
        ELSE IF Int8(distance + 1) > 127
        THEN <<Nil, FALSE>>
        ELSE GetLoop(m, key, hash, AndMask(slot + 1, m.mask), Int8(distance + 1))

Get(m, key) == GetLoop(m, key, fastHash(key), AndMask(fastHash(key), m.mask), 0)

\* The inner loop of Delete: entries after the gap move back while they are
\* not empty and their Distance is not 0; the last slot reached is emptied.
RECURSIVE ShiftBack(_, _)
ShiftBack(m, slot) ==
    LET nextSlot == AndMask(slot + 1, m.mask)
        nextEntry == m.entries[nextSlot]
    IN  IF nextEntry.Empty \/ nextEntry.Distance = 0
        THEN [m EXCEPT !.entries[slot].Empty = TRUE,
                       !.entries[slot].Key = "",
                       !.entries[slot].Value = Nil]
        ELSE ShiftBack([m EXCEPT !.entries[slot] =
                                     [nextEntry EXCEPT !.Distance = Int8(@ - 1)]],
                       nextSlot)

\* Delete: the map afterwards and the value returned.
RECURSIVE DeleteLoop(_, _, _, _, _)
DeleteLoop(m, key, hash, slot, distance) ==
    LET entry == m.entries[slot]
    IN  IF entry.Empty \/ distance > entry.Distance
        THEN [map |-> m, ret |-> FALSE]
        ELSE IF entry.Hash = hash /\ entry.Key = key
        THEN [map |-> ShiftBack([m EXCEPT !.count = @ - 1], slot), ret |-> TRUE]
        ELSE IF Int8(distance + 1) > 127
        THEN [map |-> m, ret |-> FALSE]
        ELSE DeleteLoop(m, key, hash, AndMask(slot + 1, m.mask), Int8(distance + 1))

Delete(m, key) == DeleteLoop(m, key, fastHash(key), AndMask(fastHash(key), m.mask), 0)

\* Size()
Size(m) == m.count

\* Keys(): the keys of the non-empty entries in table order.
RECURSIVE KeysFrom(_, _)
KeysFrom(m, p) ==
    IF p \notin DOMAIN m.entries
    THEN <<>>
    ELSE (IF m.entries[p].Empty THEN <<>> ELSE <<m.entries[p].Key>>) \o KeysFrom(m, p + 1)

Keys(m) == KeysFrom(m, 0)

\* The map object of the current state.
rhm == [entries |-> rhmEntries, size |-> rhmSize, count |-> rhmCount, mask |-> rhmMask]

SetMap(m) ==
    /\ rhmEntries' = m.entries
    /\ rhmSize' = m.size
    /\ rhmCount' = m.count
    /\ rhmMask' = m.mask

KeySet(m) == {Keys(m)[k] : k \in DOMAIN Keys(m)}

\* What is remembered of a call: the operation, its key, what it returned
\* (Delete), whether the key was in the map it stands for, and Size() and
\* the set of Keys() before the call.
CallRecord(op, key, ret) ==
    [op |-> op, key |-> key, ret |-> ret,
     present |-> rhmModel[key] # Nil,
     sizeBefore |-> Size(rhm),
     keysBefore |-> KeySet(rhm)]

InitRobinHood ==
    /\ MmapIdle
    /\ PipelineIdle
    /\ ReadFileIdle
    /\ rhmEntries = NewRobinHoodMap.entries
    /\ rhmSize = NewRobinHoodMap.size
    /\ rhmCount = NewRobinHoodMap.count
    /\ rhmMask = NewRobinHoodMap.mask
    /\ rhmModel = [k \in RhKeys |-> Nil]
    /\ rhmLast = [op |-> "New", key |-> "", ret |-> FALSE, present |-> FALSE,
                  sizeBefore |-> 0, keysBefore |-> {}]

RobinHoodFrame == UNCHANGED <<mmapVars, pipeVars, readVars>>

RhPut ==
    /\ rhmSize > 0
    /\ OverLoaded(rhm) => 2 * rhmSize <= MaxTableSize
    /\ \E key \in RhKeys, value \in RhValues :
           /\ SetMap(Put(rhm, key, value))
           /\ rhmModel' = [rhmModel EXCEPT ![key] = value]
           /\ rhmLast' = CallRecord("Put", key, FALSE)
    /\ RobinHoodFrame

RhDelete ==
    /\ rhmSize > 0
    /\ \E key \in RhKeys :
           /\ SetMap(Delete(rhm, key).map)
           /\ rhmModel' = [rhmModel EXCEPT ![key] = Nil]
           /\ rhmLast' = CallRecord("Delete", key, Delete(rhm, key).ret)
    /\ RobinHoodFrame

NextRobinHood == RhPut \/ RhDelete

SpecRobinHood == InitRobinHood /\ [][NextRobinHood]_vars

\* C29: after any sequence of Put and Delete, Get(k) is (v, true) exactly
\* when the last operation on k was Put(k, v) and (nil, false) otherwise, and
\* the last Delete returned true exactly when its key was present.
C29_BehavesAsMap ==
    /\ \A k \in RhKeys :
           Get(rhm, k) = IF rhmModel[k] # Nil THEN <<rhmModel[k], TRUE>> ELSE <<Nil, FALSE>>
    /\ rhmLast.op = "Delete" => rhmLast.ret = rhmLast.present

NonEmptySlots(m) == {p \in DOMAIN m.entries : ~m.entries[p].Empty}

\* C30: Size() is the number of non-empty entries, which is the number of
\* distinct keys in the table; no key is in two slots; a Put of a key that
\* Keys() already held left Size() and the set of Keys() as they were.
C30_ElementCount ==
    /\ Size(rhm) = Cardinality(NonEmptySlots(rhm))
    /\ Cardinality(NonEmptySlots(rhm)) = Cardinality(KeySet(rhm))
    /\ \A p, q \in NonEmptySlots(rhm) :
           rhmEntries[p].Key = rhmEntries[q].Key => p = q
    /\ (rhmLast.op = "Put" /\ rhmLast.key \in rhmLast.keysBefore) =>
           /\ Size(rhm) = rhmLast.sizeBefore
           /\ KeySet(rhm) = rhmLast.keysBefore
====
